---- MODULE Spec2Model ----
(***************************************************************************)
(* Model of tardis/tardis_portal/storage/squashfs.py: the SquashFS storage *)
(* box (mount, path guard, storage facade), the storage walk, the default  *)
(* datafile matcher with its orchestration loop, and the two celery tasks  *)
(* guarded by the parse_status parameter.                                  *)
(*                                                                         *)
(* The components do not share state, so each has its own specification    *)
(* over the module's variables: SpecTask, SpecMount, SpecPath, SpecWalk,    *)
(* SpecOrch.  A specification keeps the other components' variables at     *)
(* their idle values.                                                      *)
(***************************************************************************)
EXTENDS Integers, Sequences, FiniteSets, TLC

(***************************************************************************)
(* Bounds of the model.                                                    *)
(***************************************************************************)
\* datafiles carrying a parse_status parameter
MaxFiles == 2
\* parse units ever enqueued (celery's queue is unbounded)
MaxUnits == 2
\* _mount calls in one behaviour
MaxCalls == 3
\* segments in a name handed to the storage facade
MaxNameLen == 3
\* nesting of the directory "d" in a walked tree
MaxDepth == 1
\* squashfs_match_experiment runs in one behaviour
MaxRuns == 2

VARIABLES
    status,     \* [Files \X Namespaces -> string]: persisted parse_status
    units,      \* sequence of parse units (celery task instances)
    scanLog,    \* what the last parse_new_squashfiles run saw and enqueued
    mountTable, \* targets in the live OS mount table
    dirState,   \* [Locations -> "absent" | "dir" | "file"]: the mount points
    calls,      \* the _mount calls so far: [img, result]
    lastOp,     \* the last storage facade operation: name, error, path touched
    walkIn,     \* the tree and the arguments of one dj_storage_walk call
    walkOut,    \* what the fully consumed generator yielded and reported
    datasets,   \* catalog: Dataset rows
    datafiles,  \* catalog: DataFile rows
    dfos,       \* catalog: DataFileObject rows
    runs        \* the squashfs_match_experiment runs, in starting order

taskVars == <<status, units, scanLog>>
mountVars == <<mountTable, dirState, calls>>
pathVars == <<lastOp>>
walkVars == <<walkIn, walkOut>>
orchVars == <<datasets, datafiles, dfos, runs>>

vars == <<status, units, scanLog, mountTable, dirState, calls, lastOp,
          walkIn, walkOut, datasets, datafiles, dfos, runs>>

(***************************************************************************)
(* Celery tasks: parse_new_squashfiles and parse_squashfs_file.            *)
(***************************************************************************)
Files == 1..MaxFiles

\* schema namespaces that carry a parse_status parameter on every file
Namespaces == {"nsA", "nsB"}

\* settings.SQUASHFS_PARSERS: namespace -> module load string
Parsers == [ns \in {"nsA"} |-> "modA"]

\* parse_status values a parameter may hold when the tasks first see it
InitValues == {"unparsed", "running", "complete", "parse failed"}

\* the ids in ascending order, as a sequence
FileSeq == [i \in 1..MaxFiles |-> i]

\* the same query without the second exclude
UnparsedFilesKeepRunning(ns) ==
    SelectSeq(FileSeq, LAMBDA f : status[<<f, ns>>] # "complete")

\* the same query with a third exclude, for the failure value
UnparsedFilesSkipFailed(ns) ==
    SelectSeq(FileSeq, LAMBDA f :
        status[<<f, ns>>] \notin {"complete", "running", "parse failed"})

\* DatafileParameterSet.objects.filter(schema__namespace=ns,
\*   datafileparameter__name__name='parse_status')
\*   .exclude(string_value='complete').exclude(string_value='running')
\*   .values_list('datafile_id', flat=True)
UnparsedFiles(ns) ==
    SelectSeq(FileSeq, LAMBDA f : status[<<f, ns>>] \notin {"complete", "running"})

\* the configured namespaces in iteration order
ParserItems == <<"nsA">>

\* a unit of the file and namespace was killed while the persisted status
\* was 'running' and no other unit of theirs was under way
KilledQuietly(f, ns) ==
    \E v \in 1..Len(units) :
        /\ units[v].file = f /\ units[v].ns = ns
        /\ units[v].pc = "killed" /\ units[v].quiet

\* a task instance; enqueuedAfterKill, startedAfterKill and quiet record
\* when the unit was enqueued, started and killed relative to other units
NewUnit(f, form, module, ns, by) ==
    [file |-> f, form |-> form, module |-> module, ns |-> ns, by |-> by,
     pc |-> "queued", atStart |-> "none", local |-> "none",
     called |-> FALSE, outcome |-> "none", wrote |-> <<>>,
     enqueuedAfterKill |-> KilledQuietly(f, ns), startedAfterKill |-> FALSE,
     quiet |-> FALSE]

RECURSIVE EnqueueAll(_, _, _)
\* for sq_file_id in unparsed_files: parse_squashfs_file.delay(id, module, ns)
EnqueueAll(ids, module, ns) ==
    IF ids = <<>> THEN <<>>
    ELSE <<NewUnit(Head(ids), "id", module, ns, "scan")>>
         \o EnqueueAll(Tail(ids), module, ns)

RECURSIVE ScanAll(_)
\* for ns, parse_module in parsers.iteritems(): ...
ScanAll(nss) ==
    IF nss = <<>> THEN <<>>
    ELSE EnqueueAll(UnparsedFiles(Head(nss)), Parsers[Head(nss)], Head(nss))
         \o ScanAll(Tail(nss))

\* the scan unit: one query per configured namespace, one delay() per row
parse_new_squashfiles ==
    /\ Len(units) + Len(ScanAll(ParserItems)) <= MaxUnits
    /\ units' = units \o ScanAll(ParserItems)
    /\ scanLog' = [ran |-> TRUE, seen |-> status,
                   ids |-> [i \in 1..Len(ScanAll(ParserItems)) |->
                              <<ScanAll(ParserItems)[i].file,
                                ScanAll(ParserItems)[i].ns>>]]
    /\ UNCHANGED status

\* a parse unit enqueued by a caller other than the scan unit; the first
\* argument is either a bare datafile id or a lookup expression for it
delay_parse_squashfs_file ==
    \E f \in Files, form \in {"id", "lookup"}, ns \in DOMAIN Parsers :
        /\ Len(units) < MaxUnits
        /\ units' = Append(units, NewUnit(f, form, Parsers[ns], ns, "direct"))
        /\ UNCHANGED <<status, scanLog>>

\* DataFile.objects.get(squashfs_file_id): the argument is passed
\* positionally, where QuerySet.get takes lookup expressions (Q objects or
\* (field, value) pairs); a bare integer id is not one and the call raises
DataFileGetRaises(form) == form = "id"

\* no guard at all
AlreadyHandledNever(v) == FALSE

\* the guard with 'complete' left out
AlreadyHandledRunningOnly(v) == v = "running"

\* the guard with 'running' left out
AlreadyHandledCompleteOnly(v) == v = "complete"

\* if status.string_value in ['complete', 'running']: return
AlreadyHandled(v) == v \in {"complete", "running"}

\* lines 176-182: look the file up, read the parameter, check it
parse_squashfs_file_begin(u) ==
    /\ units[u].pc = "queued"
    /\ LET cur == status[<<units[u].file, units[u].ns>>]
           after == KilledQuietly(units[u].file, units[u].ns)
       IN units' = [units EXCEPT ![u] =
            IF DataFileGetRaises(units[u].form)
            THEN [@ EXCEPT !.pc = "lookup_raised", !.atStart = cur,
                           !.startedAfterKill = after]
            ELSE IF AlreadyHandled(cur)
            THEN [@ EXCEPT !.pc = "returned", !.atStart = cur, !.local = cur,
                           !.startedAfterKill = after]
            ELSE [@ EXCEPT !.pc = "checked", !.atStart = cur, !.local = cur,
                           !.startedAfterKill = after]]
    /\ UNCHANGED <<status, scanLog>>

\* the save as a conditional update: it goes through only while the
\* persisted status is still the value the unit read
parse_squashfs_file_set_running_if_unchanged(u) ==
    /\ units[u].pc = "checked"
    /\ status[<<units[u].file, units[u].ns>>] = units[u].local
    /\ status' = [status EXCEPT ![<<units[u].file, units[u].ns>>] = "running"]
    /\ units' = [units EXCEPT ![u] =
                   [@ EXCEPT !.pc = "running", !.local = "running",
                             !.wrote = Append(@, "running")]]
    /\ UNCHANGED scanLog

\* lines 183-184: status.string_value = 'running'; status.save()
parse_squashfs_file_set_running(u) ==
    /\ units[u].pc = "checked"
    /\ status' = [status EXCEPT ![<<units[u].file, units[u].ns>>] = "running"]
    /\ units' = [units EXCEPT ![u] =
                   [@ EXCEPT !.pc = "running", !.local = "running",
                             !.wrote = Append(@, "running")]]
    /\ UNCHANGED scanLog

\* line 185: parser = import_module(parse_module), outside the try block
parse_squashfs_file_import(u) ==
    /\ units[u].pc = "running"
    /\ \E ok \in BOOLEAN :
         units' = [units EXCEPT ![u] =
                     [@ EXCEPT !.pc = IF ok THEN "imported" ELSE "import_raised"]]
    /\ UNCHANGED <<status, scanLog>>

\* the value the except branch assigns
FailureValue == "parse failed"

\* lines 186-190: the parser call inside try/except
parse_squashfs_file_parse(u) ==
    /\ units[u].pc = "imported"
    /\ \E ok \in BOOLEAN :
         units' = [units EXCEPT ![u] =
                     [@ EXCEPT !.pc = "finally", !.called = TRUE,
                               !.outcome = IF ok THEN "ok" ELSE "raised",
                               !.local = IF ok THEN "complete" ELSE FailureValue]]
    /\ UNCHANGED <<status, scanLog>>

\* lines 191-192: finally: status.save()
parse_squashfs_file_finally(u) ==
    /\ units[u].pc = "finally"
    /\ status' = [status EXCEPT ![<<units[u].file, units[u].ns>>] = units[u].local]
    /\ units' = [units EXCEPT ![u] =
                   [@ EXCEPT !.pc = "done", !.wrote = Append(@, units[u].local)]]
    /\ UNCHANGED scanLog

\* the statements of parse_squashfs_file past the status check
UnderWay(u) == units[u].pc \in {"checked", "running", "imported", "finally"}

\* the worker running the unit is killed (revoked with terminate, or the
\* worker process dies) between two statements of lines 183-192; no
\* statement of the unit runs afterwards, the finally clause included
kill_parse_squashfs_file(u) ==
    /\ UnderWay(u)
    /\ units' = [units EXCEPT ![u] =
         [@ EXCEPT !.pc = "killed",
                   !.quiet =
                       /\ units[u].wrote # <<>>
                       /\ status[<<units[u].file, units[u].ns>>] = "running"
                       /\ \A w \in 1..Len(units) :
                            (w # u /\ units[w].file = units[u].file
                             /\ units[w].ns = units[u].ns) => ~UnderWay(w)]]
    /\ UNCHANGED <<status, scanLog>>

TaskStart ==
    /\ status \in {s \in [Files \X Namespaces -> InitValues] :
                     \A f \in Files : s[<<f, "nsB">>] = "unparsed"}
    /\ units = <<>>
    /\ scanLog = [ran |-> FALSE, seen |-> status, ids |-> <<>>]

\* before any task ran a parameter is 'unparsed' or, for a file parsed by
\* other means, 'complete'; 'running' and the failure value then come from
\* the units alone
TaskKillStart ==
    /\ status \in {s \in [Files \X Namespaces -> {"unparsed", "complete"}] :
                     \A f \in Files : s[<<f, "nsB">>] = "unparsed"}
    /\ units = <<>>
    /\ scanLog = [ran |-> FALSE, seen |-> status, ids |-> <<>>]

\* no task has been enqueued and none ever is
TaskIdle ==
    /\ status = [k \in Files \X Namespaces |-> "unparsed"]
    /\ units = <<>>
    /\ scanLog = [ran |-> FALSE, seen |-> status, ids |-> <<>>]

(***************************************************************************)
(* SquashFSStorage: _mounted and _mount.                                   *)
(*                                                                         *)
(* File names and locations are strings, modelled as tuples of characters. *)
(***************************************************************************)
\* squashmount_root (settings.SQUASHFS_MOUNT_ROOT)
squashmount_root == <<"/", "m">>

\* the sq_filename of the archive images
SqNames == {<<"a">>, <<"a", "b">>, <<"c">>}

\* os.path.join(self.squashmount_root, sq_filename), lines 66-67
Location(name) == squashmount_root \o <<"/">> \o name

Locations == {Location(n) : n \in SqNames}

\* str.find(sub) > -1: sub occurs somewhere in text
Find(text, sub) ==
    \E i \in 1..(Len(text) - Len(sub) + 1) :
        SubSeq(text, i, i + Len(sub) - 1) = sub

\* a check that never sees the location
_mounted_never(location) == FALSE

\* lines 78-81: mount_list.find(self.location) > -1.  `mount` prints one
\* line per mount with its target; a location holds no blank or newline,
\* so it is found in the listing iff it is found inside one target
_mounted(location) == \E t \in mountTable : Find(t, location)

\* lines 86-91: os.makedirs(self.location), tolerating an existing directory
MakedirsRaises(location, denied) ==
    \/ dirState[location] = "file"
    \/ dirState[location] = "absent" /\ denied

\* lines 83-93.  denied: makedirs fails for another reason than EEXIST;
\* works: the mount utility mounts the image (its exit status is not read)
_mount(name, denied, works) ==
    LET location == Location(name)
        \* target: the location itself is a mount target when the call starts
        call(result) == [img |-> name, result |-> result,
                         target |-> location \in mountTable]
    IN
    /\ Len(calls) < MaxCalls
    /\ IF _mounted(location)
       THEN /\ calls' = Append(calls, call("noop"))
            /\ UNCHANGED <<mountTable, dirState>>
       ELSE IF MakedirsRaises(location, denied)
       THEN /\ calls' = Append(calls, call("makedirs_raised"))
            /\ UNCHANGED <<mountTable, dirState>>
       ELSE /\ dirState' = [dirState EXCEPT ![location] = "dir"]
            /\ mountTable' = IF works THEN mountTable \cup {location} ELSE mountTable
            /\ calls' = Append(calls, call(IF works THEN "invoked_mounted"
                                           ELSE "invoked_failed"))

MountStart ==
    /\ mountTable \in SUBSET Locations
    /\ dirState \in [Locations -> {"absent", "dir", "file"}]
    /\ \A l \in mountTable : dirState[l] = "dir"
    /\ calls = <<>>

MountIdle ==
    /\ mountTable = {}
    /\ dirState = [l \in Locations |-> "absent"]
    /\ calls = <<>>

(***************************************************************************)
(* SquashFSStorage.path and the operations that go through it.             *)
(*                                                                         *)
(* Paths are tuples of segments; a name is [abs, segs].                    *)
(***************************************************************************)
\* self.location of the instance whose operations are modelled: /m/a
StorageLocation == <<"m", "a">>

Segments == {"..", ".", "m", "a", "x"}

SegSeqs(n) == UNION {[1..k -> Segments] : k \in 0..n}

Names == [abs : BOOLEAN, segs : SegSeqs(MaxNameLen)]

RECURSIVE NormSegs(_, _)
\* os.path.normpath on an absolute path: "." and empty segments drop,
\* ".." removes the segment before it and is dropped at the root
NormSegs(done, rest) ==
    IF rest = <<>> THEN done
    ELSE IF Head(rest) = "." THEN NormSegs(done, Tail(rest))
    ELSE IF Head(rest) = ".."
    THEN NormSegs(IF done = <<>> THEN <<>> ELSE SubSeq(done, 1, Len(done) - 1),
                  Tail(rest))
    ELSE NormSegs(Append(done, Head(rest)), Tail(rest))

normpath(p) == NormSegs(<<>>, p)

\* os.path.join(base, name): an absolute name replaces the base
join(base, name) == IF name.abs THEN name.segs ELSE base \o name.segs

IsPrefix(p, q) == Len(p) <= Len(q) /\ SubSeq(q, 1, Len(p)) = p

\* the containment test applied to the joined path before it is normalised
safe_join_unnormalised(base, name) ==
    [raised |-> ~IsPrefix(base, join(base, name)),
     path |-> normpath(join(base, name))]

\* django.utils._os.safe_join as used by line 117: the normalised join
\* must be the base or lie under base + sep, or ValueError is raised
safe_join(base, name) ==
    LET final_path == normpath(join(base, name))
        base_path == normpath(base)
    IN [raised |-> ~(IsPrefix(base_path, final_path) \/ base_path = <<>>),
        path |-> final_path]

\* lines 115-121: ValueError becomes SuspiciousOperation
path(name) ==
    LET j == safe_join(StorageLocation, name)
    IN IF j.raised THEN [raised |-> "SuspiciousOperation", path |-> <<>>]
       ELSE [raised |-> "none", path |-> normpath(j.path)]

\* _open, exists, listdir, size and the three timestamps (lines 95-133)
StorageOps == {"_open", "exists", "listdir", "size",
               "accessed_time", "created_time", "modified_time"}

\* each operation resolves the name with self.path before its OS call
storage_op(op, name) ==
    LET p == path(name)
    IN /\ lastOp.op = "none"
       /\ lastOp' = [op |-> op, name |-> name, raised |-> p.raised,
                     touched |-> IF p.raised = "none" THEN <<p.path>> ELSE <<>>]

PathIdle == lastOp = [op |-> "none", name |-> [abs |-> FALSE, segs |-> <<>>],
                       raised |-> "none", touched |-> <<>>]

(***************************************************************************)
(* dj_storage_walk over a storage whose listdir reads a finite tree.       *)
(*                                                                         *)
(* A directory holds files among ".h" and "v", and may hold the            *)
(* directories ".d" (holding the file "v"), "e" (holding ".h" and "v")     *)
(* and "d", a directory of the same shape nested up to MaxDepth.           *)
(***************************************************************************)
DotH == <<".", "h">>
V == <<"v">>
DotD == <<".", "d">>
D == <<"d">>
E == <<"e">>
\* top='.'
Top == <<<<".">>>>

FileNames == {DotH, V}

RECURSIVE Trees(_)
Trees(k) ==
    [files : SUBSET FileNames, dotd : BOOLEAN, e : BOOLEAN,
     d : IF k = 0 THEN {<<>>} ELSE {<<>>} \cup {<<t>> : t \in Trees(k - 1)}]

LeafDotD == [files |-> {V}, dotd |-> FALSE, e |-> FALSE, d |-> <<>>]
LeafE == [files |-> {DotH, V}, dotd |-> FALSE, e |-> FALSE, d |-> <<>>]

\* the entries of a directory that are directories, in listing order
TreeDirs(t) ==
    (IF t.dotd THEN <<DotD>> ELSE <<>>)
    \o (IF t.d # <<>> THEN <<D>> ELSE <<>>)
    \o (IF t.e THEN <<E>> ELSE <<>>)

\* the entries that are not directories, in listing order
TreeFiles(t) == SelectSeq(<<DotH, V>>, LAMBDA f : f \in t.files)

Child(t, name) ==
    IF name = DotD THEN LeafDotD ELSE IF name = E THEN LeafE ELSE t.d[1]

RECURSIVE Subtree(_, _)
\* the directory a path names; "." segments stay in place
Subtree(t, p) ==
    IF p = <<>> THEN t
    ELSE IF Head(p) = <<".">> THEN Subtree(t, Tail(p))
    ELSE Subtree(Child(t, Head(p)), Tail(p))

RECURSIVE DirPaths(_, _)
\* every directory of the tree, by the path the walk reaches it with
DirPaths(t, top) ==
    {top} \cup UNION {DirPaths(Child(t, TreeDirs(t)[i]), Append(top, TreeDirs(t)[i])) :
                        i \in 1..Len(TreeDirs(t))}

\* lines 105-113: SquashFSStorage.listdir splits os.listdir by entry type;
\* os.listdir raises os.error for a directory that cannot be read
listdir(st, top) ==
    IF top \in st.unlistable
    THEN [ok |-> FALSE, dirs |-> <<>>, files |-> <<>>]
    ELSE [ok |-> TRUE, dirs |-> TreeDirs(Subtree(st.tree, top)),
          files |-> TreeFiles(Subtree(st.tree, top))]

\* d.startswith('.')
StartsWithDot(n) == Len(n) > 0 /\ n[1] = "."

NotDot(names) == SelectSeq(names, LAMBDA n : ~StartsWithDot(n))

RECURSIVE dj_storage_walk(_, _, _, _, _)
RECURSIVE WalkDirs(_, _, _)

\* lines 208-211: the recursive call passes the storage and new_top only,
\* so below the top level topdown=True, onerror=None, ignore_dotfiles=True
WalkDirs(st, top, dirnames) ==
    IF dirnames = <<>> THEN [yields |-> <<>>, errors |-> <<>>]
    ELSE LET first == dj_storage_walk(st, Append(top, Head(dirnames)),
                                      TRUE, FALSE, TRUE)
             rest == WalkDirs(st, top, Tail(dirnames))
         IN [yields |-> first.yields \o rest.yields,
             errors |-> first.errors \o rest.errors]

\* lines 195-213; onerror: whether a callback was supplied.  The result is
\* the triples yielded, in order, and the directories reported to onerror
dj_storage_walk(st, top, topdown, onerror, ignore_dotfiles) ==
    LET l == listdir(st, top) IN
    IF ~l.ok
    THEN [yields |-> <<>>, errors |-> IF onerror THEN <<top>> ELSE <<>>]
    ELSE LET dirnames == IF ignore_dotfiles THEN NotDot(l.dirs) ELSE l.dirs
             filenames == IF ignore_dotfiles THEN NotDot(l.files) ELSE l.files
             here == <<[top |-> top, dirs |-> dirnames, files |-> filenames]>>
             below == WalkDirs(st, top, dirnames)
         IN [yields |-> (IF topdown THEN here ELSE <<>>) \o below.yields
                        \o (IF ~topdown THEN here ELSE <<>>),
             errors |-> below.errors]

\* a caller consumes the whole generator
walk ==
    /\ ~walkOut.done
    /\ walkOut' = [done |-> TRUE] @@
                  dj_storage_walk([tree |-> walkIn.tree,
                                   unlistable |-> walkIn.unlistable],
                                  Top, walkIn.topdown, walkIn.onerror,
                                  walkIn.ignore_dotfiles)
    /\ UNCHANGED walkIn

WalkStart ==
    /\ \E t \in Trees(MaxDepth) :
         \E u \in {{}} \cup {{p} : p \in DirPaths(t, Top)} :
            walkIn \in [tree : {t}, unlistable : {u}, topdown : BOOLEAN,
                        onerror : BOOLEAN, ignore_dotfiles : BOOLEAN]
    /\ walkOut = [done |-> FALSE, yields |-> <<>>, errors |-> <<>>]

WalkIdle ==
    /\ walkIn = [tree |-> LeafE, unlistable |-> {}, topdown |-> TRUE,
                 onerror |-> FALSE, ignore_dotfiles |-> TRUE]
    /\ walkOut = [done |-> FALSE, yields |-> <<>>, errors |-> <<>>]

(***************************************************************************)
(* The default matcher squash_parse_datafile and the orchestration loop    *)
(* squashfs_match_experiment, over a catalog of Dataset, DataFile and      *)
(* DataFileObject rows.  URIs and file paths are strings (tuples of        *)
(* characters).                                                            *)
(***************************************************************************)
Boxes == {"X", "Y"}

\* the experiment the runs are for; "e2" owns some of the existing rows
Exp == "e1"

RECURSIVE PathStr(_)
\* os.path.join folded over the segments of a path
PathStr(segs) ==
    IF Len(segs) = 1 THEN segs[1]
    ELSE PathStr(SubSeq(segs, 1, Len(segs) - 1)) \o <<"/">> \o segs[Len(segs)]

\* uri__endswith
EndsWith(str, suffix) ==
    /\ Len(suffix) <= Len(str)
    /\ SubSeq(str, Len(str) - Len(suffix) + 1, Len(str)) = suffix

\* the mounted archive of either storage box: .h, v, .d/v, e/.h, e/v
ArchiveTree == [files |-> {DotH, V}, dotd |-> TRUE, e |-> TRUE, d |-> <<>>]

\* squash_sbox.get_initialised_storage_instance(), line 298
Inst == [tree |-> ArchiveTree, unlistable |-> {}]

RECURSIVE FilesOf(_, _)
\* for filename in files: (basedir, filename)
FilesOf(top, files) ==
    IF files = <<>> THEN <<>>
    ELSE <<[basedir |-> top, filename |-> Head(files)]>> \o FilesOf(top, Tail(files))

RECURSIVE Discovered(_)
\* lines 300-302: the files of every yielded triple, in order
Discovered(yields) ==
    IF yields = <<>> THEN <<>>
    ELSE FilesOf(Head(yields).top, Head(yields).files) \o Discovered(Tail(yields))

\* for basedir, dirs, files in dj_storage_walk(inst)
WalkOfInst == dj_storage_walk(Inst, Top, TRUE, FALSE, TRUE).yields

\* filepath = os.path.join(basedir, filename), line 302
FilePath(item) == PathStr(Append(item.basedir, item.filename))

DiscoveredPaths == {FilePath(Discovered(WalkOfInst)[i]) :
                      i \in 1..Len(Discovered(WalkOfInst))}

default_name == "squashfs-files"

\* get_parser_module(exp), lines 216-224: no parser is configured for the
\* namespaces of the experiment, so the default matcher runs
get_parser_module == "None"

\* datafile__dataset__experiments=exp
InExp(df, exp) ==
    \E f \in datafiles : f.id = df /\
        \E d \in datasets : d.id = f.dataset /\ exp \in d.experiments

\* the first query with the storage box condition not negated
CrossBoxSameBox(exp, sbox, filepath) ==
    {o \in dfos : InExp(o.datafile, exp) /\ EndsWith(o.uri, filepath)
                  /\ o.storage_box = sbox}

\* lines 253-254: filter(exp_q, path_part_match_q, ~s_box_q)
CrossBox(exp, sbox, filepath) ==
    {o \in dfos : InExp(o.datafile, exp) /\ EndsWith(o.uri, filepath)
                  /\ o.storage_box # sbox}

\* the second query without the experiment condition
ExactSameBoxAnyExp(exp, sbox, filepath) ==
    {o \in dfos : o.uri = filepath /\ o.storage_box = sbox}

\* line 258: filter(exp_q, path_exact_match_q, s_box_q)
ExactSameBox(exp, sbox, filepath) ==
    {o \in dfos : InExp(o.datafile, exp) /\ o.uri = filepath
                  /\ o.storage_box = sbox}

\* a lookup that never finds the dataset
DefaultDatasetsNone(exp, sbox) == {}

\* lines 263-265: filter(experiments=exp, description=default_name,
\*                       storage_boxes=squash_sbox)
DefaultDatasets(exp, sbox) ==
    {d \in datasets : exp \in d.experiments /\ d.description = default_name
                      /\ sbox \in d.storage_boxes}

NextId(rows) == 1 + Cardinality(rows)

\* what the catalog holds for a path when a run starts to match it: the
\* locations in the box with that uri, and the locations of the experiment
\* in other boxes whose uri ends with it (kept in the run's log)
LocationsHere(sbox, filepath) ==
    {o \in dfos : o.storage_box = sbox /\ o.uri = filepath}

LocationsElsewhere(exp, sbox, filepath) ==
    {o \in dfos : o.storage_box # sbox /\ InExp(o.datafile, exp)
                  /\ EndsWith(o.uri, filepath)}

Terminal(r) == r.pc \in {"done", "raised"}

\* the loop moves on to the next discovered file
NextFile(r, entry) ==
    [r EXCEPT !.todo = Tail(@),
              !.pc = IF Tail(r.todo) = <<>> THEN "done" ELSE "tier1",
              !.log = Append(@, entry)]

CurPath(r) == FilePath(Head(r.todo))

\* lines 298-300: a run starts once the runs before it have ended
squashfs_match_experiment(sbox) ==
    /\ Len(runs) < MaxRuns
    /\ \A i \in 1..Len(runs) : Terminal(runs[i])
    /\ get_parser_module = "None"
    /\ runs' = Append(runs,
         [box |-> sbox, exp |-> Exp,
          pc |-> IF Discovered(WalkOfInst) = <<>> THEN "done" ELSE "tier1",
          todo |-> Discovered(WalkOfInst), log |-> <<>>,
          result |-> 0, dataset |-> 0, newFiles |-> {}, newDfos |-> {},
          cur |-> [here |-> {}, elsewhere |-> {}],
          pre |-> [dfos |-> dfos, datafiles |-> datafiles,
                   datasets |-> datasets]])
    /\ UNCHANGED <<datasets, datafiles, dfos>>

\* lines 298-300 run by a second worker or request while an earlier run is
\* still in its loop: nothing in squashfs_match_experiment serialises runs
squashfs_match_experiment_overlapping(sbox) ==
    /\ Len(runs) < MaxRuns
    /\ \E i \in 1..Len(runs) : ~Terminal(runs[i])
    /\ get_parser_module = "None"
    /\ runs' = Append(runs,
         [box |-> sbox, exp |-> Exp,
          pc |-> IF Discovered(WalkOfInst) = <<>> THEN "done" ELSE "tier1",
          todo |-> Discovered(WalkOfInst), log |-> <<>>,
          result |-> 0, dataset |-> 0, newFiles |-> {}, newDfos |-> {},
          cur |-> [here |-> {}, elsewhere |-> {}],
          pre |-> [dfos |-> dfos, datafiles |-> datafiles,
                   datasets |-> datasets]])
    /\ UNCHANGED <<datasets, datafiles, dfos>>

\* tier 1 returning the location it found (dfos[0]) where the code returns
\* dfos[0].datafile: line 306 then sees no DataFile and creates nothing
squash_parse_datafile_tier1_returns_dfo(i) ==
    LET r == runs[i]
        hits == CrossBox(r.exp, r.box, CurPath(r))
        seen == [here |-> LocationsHere(r.box, CurPath(r)),
                 elsewhere |-> LocationsElsewhere(r.exp, r.box, CurPath(r))]
    IN /\ r.pc = "tier1"
       /\ runs' = [runs EXCEPT ![i] =
            IF Cardinality(hits) = 1
            THEN NextFile(r, [path |-> CurPath(r), tier |-> "tier1",
                              ref |-> (CHOOSE o \in hits : TRUE).id,
                              here |-> seen.here, elsewhere |-> seen.elsewhere])
            ELSE [r EXCEPT !.pc = "tier2", !.cur = seen]]
       /\ UNCHANGED <<datasets, datafiles, dfos>>

\* lines 253-256: exactly one location elsewhere: return its datafile
squash_parse_datafile_tier1(i) ==
    LET r == runs[i]
        hits == CrossBox(r.exp, r.box, CurPath(r))
        seen == [here |-> LocationsHere(r.box, CurPath(r)),
                 elsewhere |-> LocationsElsewhere(r.exp, r.box, CurPath(r))]
    IN /\ r.pc = "tier1"
       /\ runs' = [runs EXCEPT ![i] =
            IF Cardinality(hits) = 1
            THEN [r EXCEPT !.pc = "goc_get", !.cur = seen,
                           !.result = (CHOOSE o \in hits : TRUE).datafile]
            ELSE [r EXCEPT !.pc = "tier2", !.cur = seen]]
       /\ UNCHANGED <<datasets, datafiles, dfos>>

\* lines 258-260: exactly one location here: return it, a DataFileObject,
\* for which line 306 creates nothing
squash_parse_datafile_tier2(i) ==
    LET r == runs[i]
        hits == ExactSameBox(r.exp, r.box, CurPath(r))
    IN /\ r.pc = "tier2"
       /\ runs' = [runs EXCEPT ![i] =
            IF Cardinality(hits) = 1
            THEN NextFile(r, [path |-> CurPath(r), tier |-> "tier2",
                              ref |-> (CHOOSE o \in hits : TRUE).id,
                              here |-> r.cur.here,
                              elsewhere |-> r.cur.elsewhere])
            ELSE [r EXCEPT !.pc = "ds_find"]]
       /\ UNCHANGED <<datasets, datafiles, dfos>>

\* lines 263-267: datasets[0] of an unordered query is any of its rows
squash_parse_datafile_dataset_find(i) ==
    LET r == runs[i]
        found == DefaultDatasets(r.exp, r.box)
    IN /\ r.pc = "ds_find"
       /\ IF found # {}
          THEN \E d \in found :
                  runs' = [runs EXCEPT ![i] = [r EXCEPT !.pc = "read",
                                                        !.dataset = d.id]]
          ELSE runs' = [runs EXCEPT ![i] = [r EXCEPT !.pc = "ds_create"]]
       /\ UNCHANGED <<datasets, datafiles, dfos>>

\* lines 269-272: a new dataset, linked to the experiment and the box
squash_parse_datafile_dataset_create(i) ==
    LET r == runs[i] IN
    /\ r.pc = "ds_create"
    /\ datasets' = datasets \cup
         {[id |-> NextId(datasets), description |-> default_name,
           experiments |-> {r.exp}, storage_boxes |-> {r.box}]}
    /\ runs' = [runs EXCEPT ![i] = [r EXCEPT !.pc = "read",
                                             !.dataset = NextId(datasets)]]
    /\ UNCHANGED <<datafiles, dfos>>

\* lines 274-288: size, checksums, mime type and timestamps are read from
\* the mounted file; an error there leaves squashfs_match_experiment
squash_parse_datafile_read(i) ==
    LET r == runs[i] IN
    /\ r.pc = "read"
    /\ \E ok \in BOOLEAN :
         runs' = [runs EXCEPT ![i] =
                    [r EXCEPT !.pc = IF ok THEN "df_save" ELSE "raised"]]
    /\ UNCHANGED <<datasets, datafiles, dfos>>

\* lines 289-291: df.save(); a database error leaves the loop as well
squash_parse_datafile_save(i) ==
    LET r == runs[i] IN
    /\ r.pc = "df_save"
    /\ \E ok \in BOOLEAN :
         IF ok
         THEN /\ datafiles' = datafiles \cup
                    {[id |-> NextId(datafiles), dataset |-> r.dataset,
                      filename |-> Head(r.todo).filename,
                      directory |-> PathStr(Head(r.todo).basedir),
                      run |-> i]}
              /\ runs' = [runs EXCEPT ![i] =
                            [r EXCEPT !.pc = "goc_get",
                                      !.result = NextId(datafiles),
                                      !.newFiles = @ \cup {NextId(datafiles)}]]
         ELSE /\ runs' = [runs EXCEPT ![i] = [r EXCEPT !.pc = "raised"]]
              /\ UNCHANGED datafiles
    /\ UNCHANGED <<datasets, dfos>>

\* the tier a file was matched by, from what the run holds at line 306
TierOf(r) == IF r.result \in r.newFiles THEN "new" ELSE "tier1"

\* lines 306-310, the lookup of get_or_create(datafile, storage_box, uri):
\* one row is returned, several raise MultipleObjectsReturned
get_or_create_get(i) ==
    LET r == runs[i]
        rows == {o \in dfos : o.datafile = r.result /\ o.storage_box = r.box
                              /\ o.uri = CurPath(r)}
    IN /\ r.pc = "goc_get"
       /\ runs' = [runs EXCEPT ![i] =
            IF Cardinality(rows) = 1
            THEN NextFile(r, [path |-> CurPath(r), tier |-> TierOf(r),
                              ref |-> r.result,
                              here |-> r.cur.here,
                              elsewhere |-> r.cur.elsewhere])
            ELSE IF rows = {} THEN [r EXCEPT !.pc = "goc_create"]
            ELSE [r EXCEPT !.pc = "raised"]]
       /\ UNCHANGED <<datasets, datafiles, dfos>>

\* whether the database refuses a new DataFileObject row because of a
\* row it already holds.  The declaration of DataFileObject is not part of
\* this source; the data model gives the location table no uniqueness
\* constraint of its own (uniqueness rests on get_or_create), so no insert
\* is refused
IntegrityError(row, held) == FALSE

\* lines 306-310, the insert of get_or_create; a refused insert makes
\* get_or_create return the row that is in the way
get_or_create_create(i) ==
    LET r == runs[i]
        row == [id |-> NextId(dfos), datafile |-> r.result,
                storage_box |-> r.box, uri |-> CurPath(r)]
        entry == [path |-> CurPath(r), tier |-> TierOf(r), ref |-> r.result,
                  here |-> r.cur.here, elsewhere |-> r.cur.elsewhere]
    IN /\ r.pc = "goc_create"
       /\ IF \E o \in dfos : IntegrityError(row, o)
          THEN /\ runs' = [runs EXCEPT ![i] = NextFile(r, entry)]
               /\ UNCHANGED dfos
          ELSE /\ dfos' = dfos \cup {row}
               /\ runs' = [runs EXCEPT ![i] =
                    [NextFile(r, entry) EXCEPT !.newDfos = @ \cup {NextId(dfos)}]]
       /\ UNCHANGED <<datasets, datafiles>>

\* "./v" and "q/./v"
UriV == PathStr(<<<<".">>, V>>)
UriQV == <<"q", "/">> \o UriV

\* rows another ingestion may have left: datasets 1 (of e1) and 2 (of e2)
\* with datafiles 1, 2 (dataset 1) and 3 (dataset 2), and the
\* "squashfs-files" dataset 3 of e2 in box X
OldDatasets ==
    {[id |-> 1, description |-> "other", experiments |-> {"e1"}, storage_boxes |-> {}],
     [id |-> 2, description |-> "other", experiments |-> {"e2"}, storage_boxes |-> {}],
     [id |-> 3, description |-> default_name, experiments |-> {"e2"},
      storage_boxes |-> {"X"}]}

\* the "squashfs-files" dataset an earlier run for e1 on box X has left
EarlierDataset ==
    [id |-> 4, description |-> default_name, experiments |-> {"e1"},
     storage_boxes |-> {"X"}]

OldDatafiles ==
    {[id |-> 1, dataset |-> 1, filename |-> V, directory |-> <<".">>, run |-> 0],
     [id |-> 2, dataset |-> 1, filename |-> V, directory |-> <<".">>, run |-> 0],
     [id |-> 3, dataset |-> 2, filename |-> V, directory |-> <<".">>, run |-> 0]}

\* the locations the catalog may hold before the first run
OldLocations ==
    <<[datafile |-> 1, storage_box |-> "Y", uri |-> UriV],
      [datafile |-> 2, storage_box |-> "Y", uri |-> UriQV],
      [datafile |-> 1, storage_box |-> "X", uri |-> UriV],
      [datafile |-> 2, storage_box |-> "X", uri |-> UriV],
      [datafile |-> 3, storage_box |-> "X", uri |-> UriV]>>

\* the rows of a choice of old locations, numbered 1..n
RECURSIVE Numbered(_, _, _)
Numbered(k, chosen, n) ==
    IF k > Len(OldLocations) THEN {}
    ELSE IF k \in chosen
    THEN {[id |-> n] @@ OldLocations[k]} \cup Numbered(k + 1, chosen, n + 1)
    ELSE Numbered(k + 1, chosen, n)

OrchStart ==
    /\ datasets \in {OldDatasets, OldDatasets \cup {EarlierDataset}}
    /\ datafiles = OldDatafiles
    /\ dfos \in {Numbered(1, c, 1) : c \in SUBSET (1..Len(OldLocations))}
    /\ runs = <<>>

OrchIdle ==
    /\ datasets = {}
    /\ datafiles = {}
    /\ dfos = {}
    /\ runs = <<>>

(***************************************************************************)
(* The specifications.                                                     *)
(***************************************************************************)
notTask == <<mountVars, pathVars, walkVars, orchVars>>
notMount == <<taskVars, pathVars, walkVars, orchVars>>
notPath == <<taskVars, mountVars, walkVars, orchVars>>
notWalk == <<taskVars, mountVars, pathVars, orchVars>>
notOrch == <<taskVars, mountVars, pathVars, walkVars>>

TaskInit == TaskStart /\ MountIdle /\ PathIdle /\ WalkIdle /\ OrchIdle

TaskNext ==
    \/ parse_new_squashfiles /\ UNCHANGED notTask
    \/ delay_parse_squashfs_file /\ UNCHANGED notTask
    \/ \E u \in 1..Len(units) : parse_squashfs_file_begin(u) /\ UNCHANGED notTask
    \/ \E u \in 1..Len(units) : parse_squashfs_file_set_running(u) /\ UNCHANGED notTask
    \/ \E u \in 1..Len(units) : parse_squashfs_file_import(u) /\ UNCHANGED notTask
    \/ \E u \in 1..Len(units) : parse_squashfs_file_parse(u) /\ UNCHANGED notTask
    \/ \E u \in 1..Len(units) : parse_squashfs_file_finally(u) /\ UNCHANGED notTask

SpecTask == TaskInit /\ [][TaskNext]_vars

\* the tasks on workers that may be killed
TaskKillNext ==
    \/ TaskNext
    \/ \E u \in 1..Len(units) : kill_parse_squashfs_file(u) /\ UNCHANGED notTask

TaskKillInit == TaskKillStart /\ MountIdle /\ PathIdle /\ WalkIdle /\ OrchIdle

SpecTaskKill == TaskKillInit /\ [][TaskKillNext]_vars

MountInit == MountStart /\ TaskIdle /\ PathIdle /\ WalkIdle /\ OrchIdle

MountNext ==
    \E name \in SqNames, denied \in BOOLEAN, works \in BOOLEAN :
        _mount(name, denied, works) /\ UNCHANGED notMount

SpecMount == MountInit /\ [][MountNext]_vars

PathInit == PathIdle /\ TaskIdle /\ MountIdle /\ WalkIdle /\ OrchIdle

PathNext ==
    \E op \in StorageOps, name \in Names : storage_op(op, name) /\ UNCHANGED notPath

SpecPath == PathInit /\ [][PathNext]_vars

WalkInit == WalkStart /\ TaskIdle /\ MountIdle /\ PathIdle /\ OrchIdle

WalkNext == walk /\ UNCHANGED notWalk

SpecWalk == WalkInit /\ [][WalkNext]_vars

OrchInit == OrchStart /\ TaskIdle /\ MountIdle /\ PathIdle /\ WalkIdle

OrchNext ==
    \/ \E sbox \in Boxes : squashfs_match_experiment(sbox) /\ UNCHANGED notOrch
    \/ \E i \in 1..Len(runs) : squash_parse_datafile_tier1(i) /\ UNCHANGED notOrch
    \/ \E i \in 1..Len(runs) : squash_parse_datafile_tier2(i) /\ UNCHANGED notOrch
    \/ \E i \in 1..Len(runs) : squash_parse_datafile_dataset_find(i) /\ UNCHANGED notOrch
    \/ \E i \in 1..Len(runs) : squash_parse_datafile_dataset_create(i) /\ UNCHANGED notOrch
    \/ \E i \in 1..Len(runs) : squash_parse_datafile_read(i) /\ UNCHANGED notOrch
    \/ \E i \in 1..Len(runs) : squash_parse_datafile_save(i) /\ UNCHANGED notOrch
    \/ \E i \in 1..Len(runs) : get_or_create_get(i) /\ UNCHANGED notOrch
    \/ \E i \in 1..Len(runs) : get_or_create_create(i) /\ UNCHANGED notOrch

SpecOrch == OrchInit /\ [][OrchNext]_vars

\* runs of squashfs_match_experiment that may overlap
OrchParNext ==
    \/ OrchNext
    \/ \E sbox \in Boxes :
         squashfs_match_experiment_overlapping(sbox) /\ UNCHANGED notOrch

SpecOrchPar == OrchInit /\ [][OrchParNext]_vars

(***************************************************************************)
(* Properties of the task protocol (SpecTask).                             *)
(***************************************************************************)
\* C1: a parse unit that starts while the persisted parse_status of its
\* file is 'complete' or 'running' never invokes the parser and never
\* writes the status: it ends at the return of line 182 (or, for a bare
\* id, at the lookup of line 176) with nothing changed
C1_HandledUnitHasNoEffect ==
    \A u \in 1..Len(units) :
        units[u].atStart \in {"complete", "running"} =>
            /\ ~units[u].called
            /\ units[u].wrote = <<>>
            /\ units[u].pc \in {"returned", "lookup_raised"}

C1_Witness ==
    \E u \in 1..Len(units) :
        /\ units[u].atStart \in {"complete", "running"}
        /\ units[u].pc = "returned"

\* C2: a parse unit that starts while the status is 'unparsed' persists
\* 'running' first, then invokes the parser, and ends with 'complete'
\* persisted if the parser succeeded and 'failed' if it raised; every
\* value it persists is one of unparsed, running, complete, failed
C2_UnparsedEndsCompleteOrFailed ==
    \A u \in 1..Len(units) :
        units[u].atStart = "unparsed" =>
            /\ units[u].pc \notin {"returned", "lookup_raised"}
            /\ \A k \in 1..Len(units[u].wrote) :
                 units[u].wrote[k] \in {"unparsed", "running", "complete", "failed"}
            /\ units[u].called => Len(units[u].wrote) >= 1 /\ units[u].wrote[1] = "running"
            /\ units[u].pc = "done" =>
                 units[u].wrote = <<"running", IF units[u].outcome = "ok"
                                               THEN "complete" ELSE "failed">>

SameKey(u, v) ==
    units[u].file = units[v].file /\ units[u].ns = units[v].ns

\* the unit has read the parse_status parameter (line 177)
HasRead(u) == units[u].pc \notin {"queued", "lookup_raised"}

C13_CompleteIsFinal ==
    [][\A f \in Files, ns \in Namespaces :
         status[<<f, ns>>] = "complete" => status'[<<f, ns>>] = "complete"]_vars

\* C13 amended: a step that takes the persisted status away from
\* 'complete' is a save of a parse unit that read a status other than
\* 'complete' and 'running', hence before 'complete' was persisted by
\* another unit of the same file that ran at the same time; a unit that
\* reads 'complete' never writes
C13_CompleteLeftOnlyByOverlappingUnit ==
    [][\A f \in Files, ns \in Namespaces :
         (status[<<f, ns>>] = "complete" /\ status'[<<f, ns>>] # "complete") =>
             \E u \in 1..Len(units), v \in 1..Len(units) :
                 /\ u # v /\ SameKey(u, v)
                 /\ units[u].file = f /\ units[u].ns = ns
                 /\ units[u].pc \in {"checked", "finally"}
                 /\ units'[u].pc # units[u].pc
                 /\ units[u].atStart \notin {"complete", "running"}
                 /\ units[v].pc = "done"
                 /\ units[v].wrote = <<"running", "complete">>]_vars

\* a unit has persisted 'complete' and ended, and another unit of the same
\* file, which had passed the status check, has persisted 'running' over it
C13_Witness ==
    \E u \in 1..Len(units), v \in 1..Len(units) :
        /\ u # v /\ SameKey(u, v)
        /\ units[v].pc = "done" /\ units[v].wrote = <<"running", "complete">>
        /\ units[u].pc = "running" /\ units[u].wrote = <<"running">>
        /\ status[<<units[u].file, units[u].ns>>] = "running"

\* C14: the status check is not mutual exclusion: a unit that has passed
\* the check can always go on to persist 'running', also after another
\* unit of the same file has persisted it; nothing between the check of
\* line 181 and the parser call of line 187 looks at the status again
C14_CheckIsNotExclusion ==
    \A u \in 1..Len(units), v \in 1..Len(units) :
        (u # v /\ SameKey(u, v) /\ units[u].pc = "checked"
         /\ units[v].wrote # <<>>) =>
            ENABLED parse_squashfs_file_set_running(u)

\* two units of one file and namespace both read 'unparsed', which no unit
\* ever writes, so both reads came before either persisted 'running'; both
\* have invoked the parser
C14_Witness ==
    \E u \in 1..Len(units), v \in 1..Len(units) :
        /\ u # v /\ SameKey(u, v)
        /\ units[u].atStart = "unparsed" /\ units[v].atStart = "unparsed"
        /\ units[u].called /\ units[v].called

\* C15: a parse unit that has persisted 'running' and has ended on its own
\* (returned or raised) has persisted a final value after it, 'complete'
\* or the failure value (read here as the value line 190 assigns),
\* whatever failed after 'running' was set
C15_RunningUnitPersistsFinalStatus ==
    \A u \in 1..Len(units) :
        (units[u].wrote # <<>> /\ units[u].pc \in {"done", "import_raised"}) =>
            /\ Len(units[u].wrote) = 2
            /\ units[u].wrote[2] \in {"complete", FailureValue}

\* a unit killed after it persisted 'running' and before it persisted
\* anything else
KilledAtRunning(v) ==
    units[v].pc = "killed" /\ units[v].wrote = <<"running">>

\* a scan has not enqueued u after the kill, and u, if it started after
\* the kill, has neither written the status nor invoked the parser
Untouched(u) ==
    /\ units[u].enqueuedAfterKill => units[u].by # "scan"
    /\ units[u].startedAfterKill => units[u].wrote = <<>> /\ ~units[u].called

\* C16 as stated: once a unit has been killed between persisting
\* 'running' and persisting a final status, the status of its file is
\* 'running' in every later state
C16_KilledLeavesRunningForever ==
    \A v \in 1..Len(units) :
        KilledAtRunning(v) => status[<<units[v].file, units[v].ns>>] = "running"

\* C16 amended: when the unit is killed while the persisted status is
\* 'running' and no other unit of the file is past its status check and
\* still under way, the status is 'running' in every later state, no
\* later scan enqueues the file and no unit started later writes the
\* status or invokes the parser
C16_KilledQuietlyLeavesRunningForever ==
    \A v \in 1..Len(units) :
        (KilledAtRunning(v) /\ units[v].quiet) =>
            /\ status[<<units[v].file, units[v].ns>>] = "running"
            /\ \A u \in 1..Len(units) : (u # v /\ SameKey(u, v)) => Untouched(u)

\* a unit was killed at 'running'; afterwards a scan ran and saw
\* 'running', and a unit of the same file started and returned
C16_Witness ==
    \E v \in 1..Len(units), u \in 1..Len(units) :
        /\ KilledAtRunning(v) /\ units[v].quiet
        /\ u # v /\ SameKey(u, v)
        /\ units[u].startedAfterKill /\ units[u].pc = "returned"
        /\ scanLog.ran
        /\ scanLog.seen[<<units[v].file, units[v].ns>>] = "running"

(***************************************************************************)
(* Properties of the mount (SpecMount).                                    *)
(***************************************************************************)
Invoked(c) == c.result \in {"invoked_mounted", "invoked_failed"}

\* C3 as stated: of two _mount calls in sequence for the same image, at
\* most one invokes the mount utility
C3_TwiceInvokesAtMostOnce ==
    \A k \in 1..(Len(calls) - 1) :
        calls[k].img = calls[k + 1].img =>
            ~(Invoked(calls[k]) /\ Invoked(calls[k + 1]))

\* C3 amended: of two _mount calls in sequence for the same image, the
\* second invokes nothing when the first found the location mounted or
\* mounted it; both invoke the utility only when the first invocation
\* failed to mount the image
C3_SecondCallNoopOnceMounted ==
    \A k \in 1..(Len(calls) - 1) :
        calls[k].img = calls[k + 1].img =>
            /\ calls[k].result \in {"noop", "invoked_mounted"} =>
                 calls[k + 1].result = "noop"
            /\ Invoked(calls[k]) /\ Invoked(calls[k + 1]) =>
                 calls[k].result = "invoked_failed"

C3_Witness ==
    \E k \in 1..(Len(calls) - 1) :
        /\ calls[k].img = calls[k + 1].img
        /\ calls[k].result = "invoked_mounted"
        /\ calls[k + 1].result = "noop"

\* C18: a _mount call treats the location as mounted, and returns without
\* doing anything, exactly when the location itself is a target in the
\* mount table; whatever else is mounted, a call for an image whose
\* location is not a target goes on to create the mount point and invoke
\* the mount utility
C18_MountedIffExactTarget ==
    \A k \in 1..Len(calls) : (calls[k].result = "noop") <=> calls[k].target

(***************************************************************************)
(* Properties of the path guard (SpecPath).                                *)
(***************************************************************************)
RECURSIVE Follow(_, _, _)
\* where the segments k.. of a name lead from the directory `at`
Follow(segs, k, at) ==
    IF k > Len(segs) THEN at
    ELSE Follow(segs, k + 1,
                IF segs[k] = "." THEN at
                ELSE IF segs[k] = ".."
                THEN (IF at = <<>> THEN at ELSE SubSeq(at, 1, Len(at) - 1))
                ELSE Append(at, segs[k]))

Resolved(name) ==
    Follow(name.segs, 1, IF name.abs THEN <<>> ELSE StorageLocation)

\* the name resolves to a place that is neither the location nor below it
Escapes(name) == ~IsPrefix(StorageLocation, Resolved(name))

\* C4: an operation on a name that escapes the location fails with
\* SuspiciousOperation and touches no path; on a name that stays within
\* the location it touches exactly the resolved path, which is normalised
\* and is the location or lies below it
C4_PathContainment ==
    lastOp.op # "none" =>
        IF Escapes(lastOp.name)
        THEN lastOp.raised = "SuspiciousOperation" /\ lastOp.touched = <<>>
        ELSE /\ lastOp.raised = "none"
             /\ lastOp.touched = <<Resolved(lastOp.name)>>
             /\ IsPrefix(StorageLocation, lastOp.touched[1])
             /\ \A k \in 1..Len(lastOp.touched[1]) :
                  lastOp.touched[1][k] \notin {".", ".."}

C4_Witness ==
    /\ lastOp.op = "listdir"
    /\ lastOp.name = [abs |-> FALSE, segs |-> <<"x", "..", "..">>]
    /\ lastOp.raised = "SuspiciousOperation"
    /\ lastOp.touched = <<>>

(***************************************************************************)
(* Properties of the walk (SpecWalk).                                      *)
(***************************************************************************)
Range(seq) == {seq[k] : k \in 1..Len(seq)}

\* the names a walk yielded: directory path segments and listed entries
YieldedNames ==
    UNION {Range(walkOut.yields[k].top) \cup Range(walkOut.yields[k].dirs)
             \cup Range(walkOut.yields[k].files) : k \in 1..Len(walkOut.yields)}

\* C5: over a tree whose directories can all be listed, a walk with
\* ignore_dotfiles=True yields no name starting with '.', and a walk with
\* ignore_dotfiles=False yields every directory of the tree with all of
\* its entries
C5_DotfilesFilteredOrAllYielded ==
    walkOut.done /\ walkIn.unlistable = {} =>
        IF walkIn.ignore_dotfiles
        THEN \A n \in YieldedNames : n = <<".">> \/ ~StartsWithDot(n)
        ELSE \A p \in DirPaths(walkIn.tree, Top) :
                \E k \in 1..Len(walkOut.yields) :
                    /\ walkOut.yields[k].top = p
                    /\ walkOut.yields[k].dirs = TreeDirs(Subtree(walkIn.tree, p))
                    /\ walkOut.yields[k].files = TreeFiles(Subtree(walkIn.tree, p))

\* no segment below the top starts with '.': the directory is filtered
\* under neither setting of ignore_dotfiles
NoDotSegment(p) == \A k \in 2..Len(p) : ~StartsWithDot(p[k])

\* the positions at which the walk yielded the triple of directory p
YieldsOf(p) == {k \in 1..Len(walkOut.yields) : walkOut.yields[k].top = p}

\* C17: when the listing of one directory of the tree fails, at the top or
\* below it, during a walk that was given an error callback, the callback
\* is invoked once, for that directory, nothing at or below the directory
\* is yielded, and every other directory is yielded once
C17_ListingErrorReportedAndLocal ==
    \A p \in DirPaths(walkIn.tree, Top) :
        (walkOut.done /\ walkIn.onerror /\ walkIn.ignore_dotfiles
         /\ walkIn.unlistable = {p} /\ NoDotSegment(p)) =>
            /\ walkOut.errors = <<p>>
            /\ \A k \in 1..Len(walkOut.yields) : ~IsPrefix(p, walkOut.yields[k].top)
            /\ \A q \in DirPaths(walkIn.tree, Top) :
                 (NoDotSegment(q) /\ ~IsPrefix(p, q)) => Cardinality(YieldsOf(q)) = 1

\* C19: a walk with topdown=False over a tree that can be listed yields
\* the triple of every directory after the triples of all directories
\* below it, and in either order every directory that is not filtered is
\* yielded exactly once
C19_BottomUpIsPostOrder ==
    (walkOut.done /\ walkIn.unlistable = {}) =>
        /\ \A q \in DirPaths(walkIn.tree, Top) :
             NoDotSegment(q) => Cardinality(YieldsOf(q)) = 1
        /\ ~walkIn.topdown =>
             \A i \in 1..Len(walkOut.yields), j \in 1..Len(walkOut.yields) :
                 (IsPrefix(walkOut.yields[i].top, walkOut.yields[j].top)
                  /\ walkOut.yields[i].top # walkOut.yields[j].top) => j < i

(***************************************************************************)
(* Properties of the matcher and the orchestration (SpecOrch).             *)
(***************************************************************************)
\* the catalog files run i created for a path
MadeFor(i, filepath) ==
    {f \in datafiles : f.run = i /\ f.directory \o <<"/">> \o f.filename = filepath}

\* the premise of C6 for a log entry of a run on sbox: the box held
\* exactly one location with the path as uri, a location of the
\* experiment, and exactly one location of the experiment in another box
\* had a uri ending with the path
C6_Premise(r, entry) ==
    /\ Cardinality(entry.here) = 1
    /\ \A o \in entry.here : InExp(o.datafile, r.exp)
    /\ Cardinality(entry.elsewhere) = 1

\* C6 as stated: under the premise the match is the exact same-box one
\* (tier 2) and no catalog file is created
C6_ExactMatchWins ==
    \A i \in 1..Len(runs) : \A k \in 1..Len(runs[i].log) :
        C6_Premise(runs[i], runs[i].log[k]) =>
            /\ runs[i].log[k].tier = "tier2"
            /\ MadeFor(i, runs[i].log[k].path) = {}

\* C6 amended: under the premise the match is the cross-location one
\* (tier 1): the catalog file of the other box's location is returned,
\* and no catalog file is created
C6_CrossLocationMatchWins ==
    \A i \in 1..Len(runs) : \A k \in 1..Len(runs[i].log) :
        C6_Premise(runs[i], runs[i].log[k]) =>
            /\ runs[i].log[k].tier = "tier1"
            /\ \A o \in runs[i].log[k].elsewhere : runs[i].log[k].ref = o.datafile
            /\ MadeFor(i, runs[i].log[k].path) = {}

C6_Witness ==
    \E i \in 1..Len(runs) : \E k \in 1..Len(runs[i].log) :
        /\ runs[i].box = "X"
        /\ C6_Premise(runs[i], runs[i].log[k])
        /\ runs[i].log[k].tier = "tier1"
        /\ \E o \in runs[i].log[k].elsewhere, h \in runs[i].log[k].here :
             o.datafile # h.datafile /\ runs[i].log[k].ref = o.datafile

\* two runs in sequence over the same storage box, both run to the end
TwiceInSequence(i) ==
    /\ i + 1 <= Len(runs)
    /\ runs[i].box = runs[i + 1].box
    /\ runs[i].pc = "done"
    /\ runs[i + 1].pc = "done"

\* C7 as stated: whatever the catalog held before, the second of two runs
\* in sequence creates no catalog file and no file-location, and the
\* storage box then holds exactly one file-location per discovered path
C7_SecondRunCreatesNothing ==
    \A i \in 1..Len(runs) :
        TwiceInSequence(i) =>
            /\ runs[i + 1].newFiles = {}
            /\ runs[i + 1].newDfos = {}
            /\ Len(runs) = i + 1 =>
                 \A p \in DiscoveredPaths :
                    Cardinality(LocationsHere(runs[i].box, p)) = 1

\* before run i the box held at most one location of the experiment per
\* discovered path
Unambiguous(i) ==
    \A p \in DiscoveredPaths :
        Cardinality({o \in runs[i].pre.dfos :
                       /\ o.storage_box = runs[i].box
                       /\ o.uri = p
                       /\ InExp(o.datafile, runs[i].exp)}) <= 1

\* C7 amended: when the storage box held at most one file-location of the
\* experiment per discovered path before the first run, the second of two
\* runs in sequence creates no catalog file and no file-location and every
\* discovered path has a file-location of the experiment in the box; when
\* the catalog held no file-location at all, there is exactly one
\* file-location in the box and one new catalog file per discovered path
C7_SecondRunCreatesNothingWhenUnambiguous ==
    \A i \in 1..Len(runs) :
        TwiceInSequence(i) /\ Unambiguous(i) =>
            /\ runs[i + 1].newFiles = {}
            /\ runs[i + 1].newDfos = {}
            /\ \A p \in DiscoveredPaths :
                 \E o \in LocationsHere(runs[i].box, p) : InExp(o.datafile, runs[i].exp)
            /\ runs[i].pre.dfos = {} =>
                 \A p \in DiscoveredPaths :
                    /\ Cardinality(LocationsHere(runs[i].box, p)) = 1
                    /\ Cardinality(MadeFor(i, p)) = 1

C7_Witness ==
    \E i \in 1..Len(runs) :
        /\ TwiceInSequence(i)
        /\ runs[i].pre.dfos = {}
        /\ Cardinality(runs[i].newFiles) = Cardinality(DiscoveredPaths)
        /\ Cardinality(runs[i].newDfos) = Cardinality(DiscoveredPaths)
        /\ runs[i + 1].newFiles = {}
        /\ runs[i + 1].newDfos = {}
        /\ \A k \in 1..Len(runs[i + 1].log) : runs[i + 1].log[k].tier = "tier2"

\* the "squashfs-files" datasets of the experiment and a storage box
SquashfsFilesDatasets(sbox) ==
    {d \in datasets : /\ d.description = "squashfs-files"
                      /\ Exp \in d.experiments
                      /\ sbox \in d.storage_boxes}

\* C8: in every state of runs in sequence there is at most one
\* "squashfs-files" dataset per experiment and storage box, and every
\* catalog file a run on that box registered as new belongs to it
C8_OneDefaultDataset ==
    \A sbox \in Boxes :
        /\ Cardinality(SquashfsFilesDatasets(sbox)) <= 1
        /\ \A f \in datafiles :
             f.run # 0 /\ runs[f.run].box = sbox =>
                \E d \in SquashfsFilesDatasets(sbox) : f.dataset = d.id

C8_Witness ==
    \E f, g \in datafiles :
        /\ f.run # 0 /\ g.run # 0 /\ f.id # g.id
        /\ f.directory # g.directory
        /\ runs[f.run].box = runs[g.run].box
        /\ f.dataset = g.dataset
        /\ Cardinality(SquashfsFilesDatasets(runs[f.run].box)) = 1

\* C10: when a run has ended, every discovered file other than one whose
\* processing raised has been matched and reconciled
C10_FailureDoesNotStopWalk ==
    \A i \in 1..Len(runs) :
        Terminal(runs[i]) =>
            \A p \in DiscoveredPaths :
                \/ \E k \in 1..Len(runs[i].log) : runs[i].log[k].path = p
                \/ runs[i].pc = "raised" /\ p = CurPath(runs[i])

(***************************************************************************)
(* Properties of overlapping orchestration runs (SpecOrchPar).             *)
(***************************************************************************)
\* C11: in every reachable state, also of runs that overlap, no two
\* DataFileObject rows have the same (datafile, storage_box, uri)
C11_LocationTripleUnique ==
    \A o1 \in dfos, o2 \in dfos :
        (o1.datafile = o2.datafile /\ o1.storage_box = o2.storage_box
         /\ o1.uri = o2.uri) => o1.id = o2.id

(***************************************************************************)
(* Properties of a completed orchestration run (SpecOrch).                 *)
(***************************************************************************)
\* the tiers by which a run matched its files, in walk order
Tiers(i) == [k \in 1..Len(runs[i].log) |-> runs[i].log[k].tier]

\* C20: when a run has gone through all discovered files without an
\* error, every discovered path has a DataFileObject in the run's storage
\* box with exactly that uri, whichever tier matched the path, and every
\* Dataset, DataFile and DataFileObject row that existed when the run
\* started is still there unchanged
C20_CompletedRunLocatesEveryPath ==
    \A i \in 1..Len(runs) :
        runs[i].pc = "done" =>
            /\ \A filepath \in DiscoveredPaths :
                 \E o \in dfos : o.storage_box = runs[i].box /\ o.uri = filepath
            /\ runs[i].pre.dfos \subseteq dfos
            /\ runs[i].pre.datafiles \subseteq datafiles
            /\ runs[i].pre.datasets \subseteq datasets

\* two completed runs over one box: the first matched a path across boxes
\* and registered the other as a new file, the second found that file by
\* its exact location
C20_Witness ==
    /\ Len(runs) = 2
    /\ runs[1].pc = "done" /\ runs[2].pc = "done"
    /\ runs[1].box = runs[2].box
    /\ Tiers(1) = <<"tier1", "new">>
    /\ Tiers(2) = <<"tier1", "tier2">>

====
